---- MODULE Spec2Model ----
(***************************************************************************)
(* FactCheck AI Pro (detectorteoria.py): the retry decorator, the metric   *)
(* extraction and score classification, the folder-name sanitizer, the     *)
(* export of the three artifacts and the controller that sequences them.   *)
(*                                                                         *)
(* Text is a sequence of characters.  A character is a one-character       *)
(* string; a run of letters whose inner structure no pattern of the code   *)
(* looks into (a label such as SCORE_DESINFORMACAO, a value word such as   *)
(* ALTA) is written as one multi-letter element and counts as word         *)
(* characters (\w).                                                        *)
(***************************************************************************)
EXTENDS Integers, Naturals, Sequences, FiniteSets, TLC

VARIABLES
    \* ---- one call of a com_retry wrapper on its own (SpecRetry)
    rw,            \* the wrapper's frame: tentativas, i, calls, notices, sleeps, outcome
    plano,         \* the wrapped operation: how many calls fail before one succeeds
    \* ---- extrair_metricas on its own (SpecMetricas)
    texto,         \* the report text handed to extrair_metricas
    metricas_out,  \* <<what it returned>>, <<>> before the call
    \* ---- classificar_score on its own (SpecScore)
    score_str,     \* the score string handed to classificar_score
    classe,        \* <<what it returned>>, <<>> before the call
    \* ---- sanitizar_nome on its own (SpecNome)
    nome_dado,          \* the claim text handed to sanitizar_nome
    nome_limpo,    \* <<what it returned>>, <<>> before the call
    nome_relimpo,  \* <<what it returned for nome_limpo>>, <<>> before that call
    \* ---- the two renderings of an evidence set (SpecFontes)
    fontes,        \* the results list of the evidence set
    tabela,        \* <<gerar_tabela_fontes_html(fontes)>>, <<>> before the call
    prompt,        \* <<formatar_evidencias_para_prompt(fontes)>>, <<>> before the call
    \* ---- investigation runs (Spec, SpecConcorrente)
    estado,        \* run -> controller state
    hist,          \* run -> the controller states entered so far, in order
    config,        \* run -> Config record
    fato,          \* run -> claim text
    w,             \* run -> frame of the com_retry wrapper of the current stage
    chamadas,      \* run -> network stage -> calls made of the wrapped function
    evidencias,    \* run -> <<results of buscar_web>>, or <<>> while unset
    laudo,         \* run -> <<report text>>, or <<>> while unset
    resumo,        \* run -> <<summary>>, or <<>> while unset
    metricas,      \* run -> <<extrair_metricas(laudo)>>, or <<>> while unset
    exp,           \* run -> locals of exportar_laudo
    retorno,       \* run -> <<value executar_investigacao returned>>, or <<>>
    erro,          \* run -> <<the exception main() caught and reported>>, or <<>>
    relogio,       \* datetime.now(), in seconds
    pastas,        \* the directories that exist
    arquivos       \* the files that exist: path -> content

varsRetry    == <<rw, plano>>
varsMetricas == <<texto, metricas_out>>
varsScore    == <<score_str, classe>>
varsNome     == <<nome_dado, nome_limpo, nome_relimpo>>
varsFontes   == <<fontes, tabela, prompt>>
varsOutros   == <<rw, plano, texto, metricas_out, score_str, classe,
                  nome_dado, nome_limpo, nome_relimpo, fontes, tabela, prompt>>
varsRun      == <<estado, hist, config, fato, w, chamadas, evidencias, laudo, resumo,
                  metricas, exp, retorno, erro, relogio, pastas, arquivos>>
vars         == <<rw, plano, texto, metricas_out, score_str, classe,
                  nome_dado, nome_limpo, nome_relimpo, fontes, tabela, prompt,
                  estado, hist, config, fato, w, chamadas, evidencias, laudo, resumo,
                  metricas, exp, retorno, erro, relogio, pastas, arquivos>>

Nenhum == "Nenhum"

(***************************************************************************)
(* Character classes of Python's re module and str methods.                *)
(***************************************************************************)
Digitos == {"0", "1", "2", "3", "4", "5", "6", "7", "8", "9"}

Espacos == {" ", "\n", "\t"}

\* the multi-letter elements used in the texts below: labels and value words
Palavras == {"SCORE_DESINFORMACAO", "CONFIANCA_ANALISE", "VEREDITO_CODIGO",
             "MÉDIA", "CONSPIR",
             "ALTA", "MEDIA", "BAIXA", "Alta",
             "VERDADEIRO", "FALSO", "PARCIAL", "CONTEXTO", "INCONCLUSIVO", "DESATUALIZADO",
             "a", "b", "N", "A", "_"}

\* \w
CharsPalavra == Digitos \cup Palavras

\* first position >= p of s that is not in class c (the end of a greedy c* from p)
RECURSIVE FimDaSerie(_, _, _)
FimDaSerie(s, p, c) ==
    IF p <= Len(s) /\ s[p] \in c THEN FimDaSerie(s, p + 1, c) ELSE p

Em(s, p) == IF p >= 1 /\ p <= Len(s) THEN s[p] ELSE Nenhum

SemMatch == [achou |-> FALSE, grupo |-> <<>>]

\* MatchRotuloEm with the group opened before \s*: LABEL:(\s*C+)
MatchRotuloEm_grupo_largo(s, p, rotulo, c) ==
    IF Em(s, p) = rotulo /\ Em(s, p + 1) = ":"
    THEN LET q == FimDaSerie(s, p + 2, Espacos)
             e == FimDaSerie(s, q, c)
         IN  IF e > q THEN [achou |-> TRUE, grupo |-> SubSeq(s, p + 2, e - 1)] ELSE SemMatch
    ELSE SemMatch

\* LABEL:\s*(C+) tried at position p, C a character class
MatchRotuloEm(s, p, rotulo, c) ==
    IF Em(s, p) = rotulo /\ Em(s, p + 1) = ":"
    THEN LET q == FimDaSerie(s, p + 2, Espacos)
             e == FimDaSerie(s, q, c)
         IN  IF e > q THEN [achou |-> TRUE, grupo |-> SubSeq(s, q, e - 1)] ELSE SemMatch
    ELSE SemMatch

\* re.search(LABEL:\s*(C+), s): the leftmost position that matches
RECURSIVE SearchRotulo(_, _, _, _)
SearchRotulo(s, p, rotulo, c) ==
    IF p > Len(s) THEN SemMatch
    ELSE LET m == MatchRotuloEm(s, p, rotulo, c)
         IN  IF m.achou THEN m ELSE SearchRotulo(s, p + 1, rotulo, c)

\* MÉDIA CONSPIR\s*\|\s*\*?\*?(\d+(?:\.\d+)?)/10 tried at position p
MatchConspirEm(s, p) ==
    IF Em(s, p) = "MÉDIA" /\ Em(s, p + 1) = " " /\ Em(s, p + 2) = "CONSPIR"
    THEN LET q1 == FimDaSerie(s, p + 3, Espacos)
         IN  IF Em(s, q1) # "|" THEN SemMatch
             ELSE LET q2 == FimDaSerie(s, q1 + 1, Espacos)
                      \* \*?\*? : greedy, at most two; what follows must be a digit
                      q3 == IF Em(s, q2) = "*"
                            THEN (IF Em(s, q2 + 1) = "*" THEN q2 + 2 ELSE q2 + 1)
                            ELSE q2
                      d1 == FimDaSerie(s, q3, Digitos)
                      d2 == IF Em(s, d1) = "." THEN FimDaSerie(s, d1 + 1, Digitos) ELSE d1
                      \* (?:\.\d+)? : taken when a dot and a digit follow
                      e  == IF d2 > d1 + 1 THEN d2 ELSE d1
                  IN  IF d1 > q3 /\ Em(s, e) = "/" /\ Em(s, e + 1) = "1" /\ Em(s, e + 2) = "0"
                      THEN [achou |-> TRUE, grupo |-> SubSeq(s, q3, e - 1)]
                      ELSE SemMatch
    ELSE SemMatch

RECURSIVE SearchConspir(_, _)
SearchConspir(s, p) ==
    IF p > Len(s) THEN SemMatch
    ELSE LET m == MatchConspirEm(s, p)
         IN  IF m.achou THEN m ELSE SearchConspir(s, p + 1)

\* the "N/A" literal of the metricas dict
NA == <<"N", "/", "A">>

\* extrair_metricas giving up at the first label it does not find
extrair_metricas_desiste(l) ==
    LET score_match     == SearchRotulo(l, 1, "SCORE_DESINFORMACAO", Digitos)
        confianca_match == SearchRotulo(l, 1, "CONFIANCA_ANALISE", CharsPalavra)
        veredito_match  == SearchRotulo(l, 1, "VEREDITO_CODIGO", CharsPalavra)
        conspir_match   == SearchConspir(l, 1)
        ate1 == score_match.achou
        ate2 == ate1 /\ confianca_match.achou
        ate3 == ate2 /\ veredito_match.achou
    IN  [score         |-> IF score_match.achou THEN score_match.grupo ELSE NA,
         confianca     |-> IF ate1 /\ confianca_match.achou THEN confianca_match.grupo ELSE NA,
         veredito      |-> IF ate2 /\ veredito_match.achou THEN veredito_match.grupo ELSE NA,
         conspir_media |-> IF ate3 /\ conspir_match.achou
                           THEN conspir_match.grupo \o <<"/", "1", "0">> ELSE NA]

extrair_metricas(l) ==
    LET score_match     == SearchRotulo(l, 1, "SCORE_DESINFORMACAO", Digitos)
        confianca_match == SearchRotulo(l, 1, "CONFIANCA_ANALISE", CharsPalavra)
        veredito_match  == SearchRotulo(l, 1, "VEREDITO_CODIGO", CharsPalavra)
        conspir_match   == SearchConspir(l, 1)
    IN  [score         |-> IF score_match.achou THEN score_match.grupo ELSE NA,
         confianca     |-> IF confianca_match.achou THEN confianca_match.grupo ELSE NA,
         veredito      |-> IF veredito_match.achou THEN veredito_match.grupo ELSE NA,
         conspir_media |-> IF conspir_match.achou
                           THEN conspir_match.grupo \o <<"/", "1", "0">> ELSE NA]

(***************************************************************************)
(* int(str) and classificar_score.                                         *)
(***************************************************************************)
ValorDigito(c) ==
    CASE c = "0" -> 0 [] c = "1" -> 1 [] c = "2" -> 2 [] c = "3" -> 3 [] c = "4" -> 4
      [] c = "5" -> 5 [] c = "6" -> 6 [] c = "7" -> 7 [] c = "8" -> 8 [] c = "9" -> 9

RECURSIVE ValorDecimal(_)
ValorDecimal(s) ==
    IF s = <<>> THEN 0 ELSE 10 * ValorDecimal(SubSeq(s, 1, Len(s) - 1)) + ValorDigito(s[Len(s)])

\* str.strip(): leading and trailing whitespace removed
RECURSIVE Strip(_)
Strip(s) ==
    IF s = <<>> THEN s
    ELSE IF s[1] \in Espacos THEN Strip(Tail(s))
    ELSE IF s[Len(s)] \in Espacos THEN Strip(SubSeq(s, 1, Len(s) - 1))
    ELSE s

\* int(s) of a str: surrounding whitespace and one sign allowed, then digits only;
\* anything else raises ValueError (digit grouping with "_" and non-ASCII digits,
\* which int() also reads, do not occur in CharsScore)
PyInt(s) ==
    LET t     == Strip(s)
        sinal == t # <<>> /\ t[1] \in {"+", "-"}
        d     == IF sinal THEN Tail(t) ELSE t
    IN  IF d # <<>> /\ \A k \in 1..Len(d) : d[k] \in Digitos
        THEN [ValueError |-> FALSE,
              valor |-> IF sinal /\ t[1] = "-" THEN 0 - ValorDecimal(d) ELSE ValorDecimal(d)]
        ELSE [ValueError |-> TRUE, valor |-> 0]

\* classificar_score with strict comparisons (score < 20, ...)
classificar_score_estrito(s) ==
    LET r     == PyInt(s)
        score == r.valor
    IN  IF r.ValueError THEN <<"white", "INDETERMINADO">>
        ELSE IF score < 20 THEN <<"green", "ALTAMENTE CONFIÁVEL">>
        ELSE IF score < 40 THEN <<"yellow", "MAIORITARIAMENTE VERDADEIRO">>
        ELSE IF score < 60 THEN <<"orange3", "SUSPEITO / VERIFICAR">>
        ELSE IF score < 80 THEN <<"red", "PROVÁVEL DESINFORMAÇÃO">>
        ELSE <<"bold red", "DESINFORMAÇÃO CONFIRMADA">>

classificar_score(s) ==
    LET r     == PyInt(s)
        score == r.valor
    IN  IF r.ValueError THEN <<"white", "INDETERMINADO">>
        ELSE IF score <= 20 THEN <<"green", "ALTAMENTE CONFIÁVEL">>
        ELSE IF score <= 40 THEN <<"yellow", "MAIORITARIAMENTE VERDADEIRO">>
        ELSE IF score <= 60 THEN <<"orange3", "SUSPEITO / VERIFICAR">>
        ELSE IF score <= 80 THEN <<"red", "PROVÁVEL DESINFORMAÇÃO">>
        ELSE <<"bold red", "DESINFORMAÇÃO CONFIRMADA">>

(***************************************************************************)
(* sanitizar_nome.                                                         *)
(***************************************************************************)
LimiteNome == 50

\* re.sub(r"[^\w\s-]", "", nome)
RECURSIVE RemoverInseguros(_)
RemoverInseguros(s) ==
    IF s = <<>> THEN s
    ELSE IF s[1] \in CharsPalavra \cup Espacos \cup {"-"}
         THEN <<s[1]>> \o RemoverInseguros(Tail(s))
         ELSE RemoverInseguros(Tail(s))

\* str.replace(" ", "_")
TrocarEspacos(s) == [k \in 1..Len(s) |-> IF s[k] = " " THEN "_" ELSE s[k]]

sanitizar_nome(nome) ==
    LET t == TrocarEspacos(Strip(RemoverInseguros(nome)))
    IN  SubSeq(t, 1, IF Len(t) < LimiteNome THEN Len(t) ELSE LimiteNome)

\* claim texts around the limit of [:50]: nothing or LimiteNome - 3 letters, then a
\* few characters of each kind the pattern and str.strip tell apart
MaxSufixo == 4

CharsNome == {"a", " ", "\t", "!", "-"}

Letras(n) == [k \in 1..n |-> "a"]

Sufixos == UNION {[1..n -> CharsNome] : n \in 0..MaxSufixo}

Nomes == {p \o x : p \in {<<>>, Letras(LimiteNome - 3)}, x \in Sufixos}

(***************************************************************************)
(* Report texts: lines joined by newlines.                                 *)
(***************************************************************************)
MaxLinhas == 3

LinhaScore         == <<"SCORE_DESINFORMACAO", ":", " ", "9", "5">>
LinhaScoreFora     == <<"SCORE_DESINFORMACAO", ":", "2", "5", "0">>
LinhaScoreEnfase   == <<"*", "*", "SCORE_DESINFORMACAO", ":", "*", "*", " ", "9", "5">>
LinhaConfianca     == <<"CONFIANCA_ANALISE", ":", " ", "ALTA">>
LinhaConfiancaFora == <<"CONFIANCA_ANALISE", ":", " ", "MÉDIA">>
LinhaConfiancaEnfase == <<"CONFIANCA_ANALISE", "*", "*", ":", " ", "ALTA">>
LinhaVeredito      == <<"VEREDITO_CODIGO", ":", " ", "FALSO">>
LinhaVereditoSo    == <<"VEREDITO_CODIGO", ":">>
LinhaConspir       == <<"|", " ", "MÉDIA", " ", "CONSPIR", " ", "|", " ",
                        "7", ".", "5", "/", "1", "0", " ", "|">>
LinhaConspirModelo == <<"|", " ", "*", "*", "MÉDIA", " ", "CONSPIR", "*", "*", " ", "|", " ",
                        "*", "*", "7", ".", "5", "/", "1", "0", "*", "*", " ", "|", " ", "|">>
LinhaMedia         == <<"MÉDIA", ":", " ", "7", "/", "1", "0">>
LinhaFinal         == LinhaScore \o <<" ">> \o LinhaConfianca \o <<" ">> \o LinhaVeredito
LinhaLixo          == <<"*", "|", "b">>
LinhaVazia         == <<>>

Linhas == {LinhaScore, LinhaScoreFora, LinhaScoreEnfase, LinhaConfianca, LinhaConfiancaFora,
           LinhaConfiancaEnfase,
           LinhaVeredito, LinhaVereditoSo, LinhaConspir, LinhaConspirModelo, LinhaMedia,
           LinhaFinal, LinhaLixo, LinhaVazia}

RECURSIVE Juntar(_)
Juntar(ls) ==
    IF ls = <<>> THEN <<>>
    ELSE IF Len(ls) = 1 THEN ls[1]
    ELSE ls[1] \o <<"\n">> \o Juntar(Tail(ls))

Textos == {Juntar(ls) : ls \in UNION {[1..n -> Linhas] : n \in 0..MaxLinhas}}

(***************************************************************************)
(* Score strings.                                                          *)
(***************************************************************************)
MaxScoreLen == 3

CharsScore == {"0", "1", "2", "4", "6", "8", "-", " ", "N", "/", "A"}

ScoreStrs == UNION {[1..n -> CharsScore] : n \in 0..MaxScoreLen}

(***************************************************************************)
(* com_retry: the frame of one call of the wrapper.                        *)
(***************************************************************************)
TentativasPadrao == 3

FrameInicial(n) ==
    [tentativas |-> n, i |-> 0, chamadas |-> 0, avisos |-> <<>>, esperas |-> 0,
     fim |-> "executando", valor |-> <<>>, excecao |-> <<>>]

\* the loop body is entered: range(tentativas) has an i left
wrapper_no_laco(f) == f.fim = "executando" /\ f.i < f.tentativas

\* try: return func(*args, **kwargs)
wrapper_sucesso(f, v) ==
    [f EXCEPT !.chamadas = @ + 1, !.fim = "retornou", !.valor = <<v>>]

\* wrapper_falha with the raise taken on any i: no retry at all
wrapper_falha_sem_retry(f, e) ==
    [f EXCEPT !.chamadas = @ + 1, !.fim = "levantou", !.excecao = <<e>>]

\* wrapper_falha with the test off by one (i == tentativas): the last failure is
\* answered with a notice and a sleep, and the loop runs out
wrapper_falha_nunca_levanta(f, e) ==
    IF f.i = f.tentativas
    THEN [f EXCEPT !.chamadas = @ + 1, !.fim = "levantou", !.excecao = <<e>>]
    ELSE [f EXCEPT !.chamadas = @ + 1, !.avisos = Append(@, [tentativa |-> f.i + 1, e |-> e]),
                   !.esperas = @ + 1, !.i = @ + 1]

\* except Exception as e: raise on the last i, else print the notice and sleep
wrapper_falha(f, e) ==
    IF f.i = f.tentativas - 1
    THEN [f EXCEPT !.chamadas = @ + 1, !.fim = "levantou", !.excecao = <<e>>]
    ELSE [f EXCEPT !.chamadas = @ + 1, !.avisos = Append(@, [tentativa |-> f.i + 1, e |-> e]),
                   !.esperas = @ + 1, !.i = @ + 1]

\* the for loop ends without return or raise: the wrapper returns None
wrapper_esgotado(f) == [f EXCEPT !.fim = "retornou", !.valor = <<"None">>]

Excecao(func, n) == [func |-> func, n |-> n]

(***************************************************************************)
(* Investigation runs: main() -> executar_investigacao -> the four stages. *)
(***************************************************************************)
Runs == {"r1", "r2"}

EtapasDeRede == {"Fetching", "Synthesizing", "Summarizing"}

MaxConfigTentativas == 4
MaxRelogio == 2

\* claims typed at the prompt, already stripped by main()
FatoA        == <<"a">>
FatoAPonto   == <<"a", "!">>
FatoB        == <<"b">>
FatoSimbolos == <<"?", "!">>
Fatos        == {FatoA, FatoAPonto, FatoB, FatoSimbolos}

\* one item of evidencias["results"]: a dict with the keys url, title, published_date
\* and content. A key the provider left out holds Ausente; the content is a string,
\* kept by its length, or JSON null
Ausente == "(ausente)"

Conteudo(n)     == [tipo |-> "str", len |-> n]
ConteudoNulo    == [tipo |-> "None", len |-> 0]
ConteudoAusente == [tipo |-> "(ausente)", len |-> 0]

FonteA == [url |-> "u1", title |-> "t1", published_date |-> "d1", content |-> Conteudo(900)]
FonteB == [url |-> "u2", title |-> "t2", published_date |-> Ausente, content |-> Conteudo(100)]
FonteSemTitulo ==
    [url |-> "u3", title |-> Ausente, published_date |-> Ausente, content |-> ConteudoAusente]
FonteSemTexto == [url |-> Ausente, title |-> "t4", published_date |-> "d4", content |-> Conteudo(0)]
FonteNula == [url |-> "u5", title |-> "t5", published_date |-> "d5", content |-> ConteudoNulo]

Fontes == {FonteA, FonteB, FonteSemTitulo, FonteSemTexto, FonteNula}

MaxFontes == 3

ListasDeFontes == UNION {[1..n -> Fontes] : n \in 0..MaxFontes}

\* what the search and generation collaborators may answer
Evidencias == {<<>>, <<FonteA>>, <<FonteB, FonteA>>, <<FonteNula>>}
Laudos     == {Juntar(<<LinhaConspir, LinhaFinal>>), Juntar(<<LinhaScoreFora, LinhaLixo>>), <<>>}
Resumos    == {"resumoA", "resumoB"}

Config(n) ==
    [max_resultados |-> 12, temperatura |-> 0, max_tentativas_retry |-> n,
     pasta_relatorios |-> "laudos_periciais"]

ExpInicial == [pc |-> "makedirs", pasta |-> <<>>, criou |-> FALSE, timestamp |-> 0]

ND == "N/D"

\* r.get(chave, "N/D") for the string fields
Get(v) == IF v = Ausente THEN ND ELSE v

LimiteConteudoPrompt == 800
LimiteConteudoTabela == 250

\* len(texto[:n])
Cortado(len, n) == IF len < n THEN len ELSE n

\* r.get('content', 'N/D')[:800]: the default has 3 characters, None has no slice
ConteudoPrompt(c) ==
    IF c.tipo = "str" THEN Cortado(c.len, LimiteConteudoPrompt) ELSE Len(<<"N", "/", "D">>)

\* formatar_evidencias_para_prompt indexing the first result before looking at the list
formatar_levanta_sem_resultados(resultados) ==
    \/ resultados = <<>>
    \/ \E k \in 1..Len(resultados) : resultados[k].content.tipo = "None"

\* the TypeError of None[:800] leaves formatar_evidencias_para_prompt
formatar_levanta(resultados) ==
    \E k \in 1..Len(resultados) : resultados[k].content.tipo = "None"

LinhaPrompt(rotulo, n, valor) == [rotulo |-> rotulo, n |-> n, valor |-> valor]

\* the six lines appended for the i-th result: n is the number the line prints (the
\* index, or the characters of content kept), valor the field it prints
BlocoPrompt(i, r) ==
    << LinhaPrompt("--- FONTE [i] ---", i, ""),
       LinhaPrompt("URL", 0, Get(r.url)),
       LinhaPrompt("Título", 0, Get(r.title)),
       LinhaPrompt("Data", 0, Get(r.published_date)),
       LinhaPrompt("Conteúdo relevante", ConteudoPrompt(r.content), ""),
       LinhaPrompt("", 0, "") >>

RECURSIVE LinhasPrompt(_, _)
LinhasPrompt(resultados, i) ==
    IF i > Len(resultados) THEN <<>>
    ELSE BlocoPrompt(i, resultados[i]) \o LinhasPrompt(resultados, i + 1)

\* the lines that "\n".join puts together, for results the slices accept
formatar_evidencias_para_prompt(resultados) ==
    IF resultados = <<>> THEN << LinhaPrompt("Nenhuma evidência encontrada.", 0, "") >>
    ELSE LinhasPrompt(resultados, 1)

\* r.get("content", "")[:250] + "..." if r.get("content") else "N/D"
ConteudoTabela(c) ==
    IF c.tipo = "str" /\ c.len > 0
    THEN [n |-> Cortado(c.len, LimiteConteudoTabela), resto |-> "..."]
    ELSE [n |-> 0, resto |-> ND]

LinhaTabela(i, r) ==
    [indice |-> i, titulo |-> Get(r.title), href |-> Get(r.url), url |-> Get(r.url),
     data |-> Get(r.published_date), conteudo |-> ConteudoTabela(r.content)]

\* gerar_tabela_fontes_html numbering every row 1
gerar_tabela_fontes_html_sem_indice(resultados) ==
    IF resultados = <<>>
    THEN [tag |-> "p", texto |-> "Nenhuma fonte encontrada na busca.", tr |-> <<>>]
    ELSE [tag |-> "table", texto |-> "",
          tr |-> [i \in 1..Len(resultados) |-> LinhaTabela(1, resultados[i])]]

\* the <tr> rows of the HTML table of sources, one per result of enumerate(resultados, 1)
gerar_tabela_fontes_html(resultados) ==
    IF resultados = <<>>
    THEN [tag |-> "p", texto |-> "Nenhuma fonte encontrada na busca.", tr |-> <<>>]
    ELSE [tag |-> "table", texto |-> "",
          tr |-> [i \in 1..Len(resultados) |-> LinhaTabela(i, resultados[i])]]

\* main_except reporting a generic error in place of the one it caught
main_except_generico(r, e) ==
    /\ estado' = [estado EXCEPT ![r] = "Failed"]
    /\ hist' = [hist EXCEPT ![r] = Append(@, "Failed")]
    /\ erro' = [erro EXCEPT ![r] = <<Excecao("Exception", 0)>>]

\* main(): except Exception as e -> "Erro Crítico: {e}"; the run is over
main_except(r, e) ==
    /\ estado' = [estado EXCEPT ![r] = "Failed"]
    /\ hist' = [hist EXCEPT ![r] = Append(@, "Failed")]
    /\ erro' = [erro EXCEPT ![r] = <<e>>]

Entrar(r, e) ==
    /\ estado' = [estado EXCEPT ![r] = e]
    /\ hist' = [hist EXCEPT ![r] = Append(@, e)]

\* the decorated function raised inside the wrapper of the current stage
FalhaDeRede(r, etapa, func) ==
    LET k  == chamadas[r][etapa] + 1
        f2 == wrapper_falha(w[r], Excecao(func, k))
    IN  /\ chamadas' = [chamadas EXCEPT ![r][etapa] = k]
        /\ w' = [w EXCEPT ![r] = f2]
        /\ IF f2.fim = "levantou"
           THEN main_except(r, f2.excecao[1])
           ELSE UNCHANGED <<estado, hist, erro>>

\* SucessoDeRede with the summary stage left out: the report goes straight to export
SucessoDeRede_sem_resumo(r, etapa, proxima) ==
    /\ chamadas' = [chamadas EXCEPT ![r][etapa] = @ + 1]
    /\ w' = [w EXCEPT ![r] = FrameInicial(TentativasPadrao)]
    /\ Entrar(r, IF etapa = "Synthesizing" THEN "Exporting" ELSE proxima)
    /\ UNCHANGED erro

\* the decorated function returned inside the wrapper; the next stage's wrapper starts
SucessoDeRede(r, etapa, proxima) ==
    /\ chamadas' = [chamadas EXCEPT ![r][etapa] = @ + 1]
    /\ w' = [w EXCEPT ![r] = FrameInicial(TentativasPadrao)]
    /\ Entrar(r, proxima)
    /\ UNCHANGED erro

\* main(): fato.strip() is not empty; executar_investigacao starts stage 1
executar_investigacao(r) ==
    /\ estado[r] = "Idle"
    /\ Entrar(r, "Fetching")
    /\ w' = [w EXCEPT ![r] = FrameInicial(TentativasPadrao)]
    /\ UNCHANGED varsOutros
    /\ UNCHANGED <<config, fato, chamadas, evidencias, laudo, resumo, metricas, exp,
                   retorno, erro, relogio, pastas, arquivos>>

\* stage 1: evidencias = buscar_web(fato, config), under @com_retry()
buscar_web(r) ==
    /\ estado[r] = "Fetching"
    /\ wrapper_no_laco(w[r])
    /\ \/ /\ \E ev \in Evidencias : evidencias' = [evidencias EXCEPT ![r] = <<ev>>]
          /\ SucessoDeRede(r, "Fetching", "Synthesizing")
       \/ /\ FalhaDeRede(r, "Fetching", "buscar_web")
          /\ UNCHANGED evidencias
    /\ UNCHANGED varsOutros
    /\ UNCHANGED <<config, fato, laudo, resumo, metricas, exp, retorno, relogio, pastas,
                   arquivos>>

\* stage 2: laudo = gerar_laudo_ia(fato, evidencias, client, config), under @com_retry().
\* The decorated body first assembles the prompt from the evidence (line 377), then
\* calls the generation collaborator (line 387): either may raise inside the wrapper
gerar_laudo_ia(r) ==
    /\ estado[r] = "Synthesizing"
    /\ wrapper_no_laco(w[r])
    /\ IF formatar_levanta(evidencias[r][1])
       THEN /\ FalhaDeRede(r, "Synthesizing", "formatar_evidencias_para_prompt")
            /\ UNCHANGED laudo
       ELSE \/ /\ \E l \in Laudos : laudo' = [laudo EXCEPT ![r] = <<l>>]
               /\ SucessoDeRede(r, "Synthesizing", "Summarizing")
            \/ /\ FalhaDeRede(r, "Synthesizing", "gerar_laudo_ia")
               /\ UNCHANGED laudo
    /\ UNCHANGED varsOutros
    /\ UNCHANGED <<config, fato, evidencias, resumo, metricas, exp, retorno, relogio, pastas,
                   arquivos>>

\* stage 3: resumo = gerar_resumo_executivo(laudo, client, config), under @com_retry()
gerar_resumo_executivo(r) ==
    /\ estado[r] = "Summarizing"
    /\ wrapper_no_laco(w[r])
    /\ \/ /\ \E t \in Resumos : resumo' = [resumo EXCEPT ![r] = <<t>>]
          /\ SucessoDeRede(r, "Summarizing", "Exporting")
       \/ /\ FalhaDeRede(r, "Summarizing", "gerar_resumo_executivo")
          /\ UNCHANGED resumo
    /\ UNCHANGED varsOutros
    /\ UNCHANGED <<config, fato, evidencias, laudo, metricas, exp, retorno, relogio, pastas,
                   arquivos>>

(***************************************************************************)
(* Stage 4: metricas = extrair_metricas(laudo); exportar_laudo(...).       *)
(* Its steps are the file-system operations, in the order of the code.     *)
(***************************************************************************)
\* Caminho with the file joined to the reports directory instead of the case folder
Caminho_na_raiz(pasta, timestamp, ext) == [pasta |-> <<>>, base |-> timestamp, ext |-> ext]

Caminho(pasta, timestamp, ext) == [pasta |-> pasta, base |-> timestamp, ext |-> ext]

md_completo(r) ==
    [fato |-> fato[r], score |-> metricas[r][1].score, veredito |-> metricas[r][1].veredito,
     confianca |-> metricas[r][1].confianca, resumo |-> resumo[r][1], laudo |-> laudo[r][1]]

html_completo(r) ==
    [fato |-> fato[r], metricas |-> metricas[r][1], resumo |-> resumo[r][1],
     laudo |-> laudo[r][1], tabela_fontes |-> gerar_tabela_fontes_html(evidencias[r][1])]

Arquivo(r, conteudo, completo) == [autor |-> r, conteudo |-> conteudo, completo |-> completo]

Gravar(c, a) == (c :> a) @@ arquivos

\* pasta = join(pasta_relatorios, sanitizar_nome(fato)); os.makedirs(pasta, exist_ok=True)
exportar_makedirs(r) ==
    /\ estado[r] = "Exporting"
    /\ exp[r].pc = "makedirs"
    /\ metricas' = [metricas EXCEPT ![r] = <<extrair_metricas(laudo[r][1])>>]
    /\ LET pasta == sanitizar_nome(fato[r])
       IN  \/ /\ pastas' = pastas \cup {pasta}
              /\ exp' = [exp EXCEPT ![r] = [@ EXCEPT !.pc = "timestamp", !.pasta = pasta,
                                                     !.criou = pasta \notin pastas]]
              /\ UNCHANGED <<estado, hist, erro>>
           \/ /\ main_except(r, Excecao("os.makedirs", 0))
              /\ UNCHANGED <<pastas, exp>>
    /\ UNCHANGED varsOutros
    /\ UNCHANGED <<config, fato, w, chamadas, evidencias, laudo, resumo, retorno, relogio,
                   arquivos>>

\* timestamp = datetime.now().strftime("%Y%m%d_%H%M%S")
exportar_timestamp(r) ==
    /\ estado[r] = "Exporting"
    /\ exp[r].pc = "timestamp"
    /\ exp' = [exp EXCEPT ![r] = [@ EXCEPT !.pc = "md", !.timestamp = relogio]]
    /\ UNCHANGED varsOutros
    /\ UNCHANGED <<estado, hist, config, fato, w, chamadas, evidencias, laudo, resumo,
                   metricas, retorno, erro, relogio, pastas, arquivos>>

\* with open(md_path, "w") as f: f.write(md_completo)
exportar_md(r) ==
    /\ estado[r] = "Exporting"
    /\ exp[r].pc = "md"
    /\ LET c == Caminho(exp[r].pasta, exp[r].timestamp, "md")
       IN  \/ /\ arquivos' = Gravar(c, Arquivo(r, md_completo(r), TRUE))
              /\ exp' = [exp EXCEPT ![r] = [@ EXCEPT !.pc = "html"]]
              /\ UNCHANGED <<estado, hist, erro>>
           \/ \* open() raises: nothing is written
              /\ main_except(r, Excecao("open.md", 0))
              /\ UNCHANGED <<arquivos, exp>>
           \/ \* write() raises: the file is there, truncated
              /\ arquivos' = Gravar(c, Arquivo(r, md_completo(r), FALSE))
              /\ main_except(r, Excecao("write.md", 0))
              /\ UNCHANGED exp
    /\ UNCHANGED varsOutros
    /\ UNCHANGED <<config, fato, w, chamadas, evidencias, laudo, resumo, metricas, retorno,
                   relogio, pastas>>

\* with open(html_path, "w") as f: f.write(html_completo)
exportar_html(r) ==
    /\ estado[r] = "Exporting"
    /\ exp[r].pc = "html"
    /\ LET c == Caminho(exp[r].pasta, exp[r].timestamp, "html")
       IN  \/ /\ arquivos' = Gravar(c, Arquivo(r, html_completo(r), TRUE))
              /\ exp' = [exp EXCEPT ![r] = [@ EXCEPT !.pc = "pdf"]]
              /\ UNCHANGED <<estado, hist, erro>>
           \/ /\ main_except(r, Excecao("open.html", 0))
              /\ UNCHANGED <<arquivos, exp>>
           \/ /\ arquivos' = Gravar(c, Arquivo(r, html_completo(r), FALSE))
              /\ main_except(r, Excecao("write.html", 0))
              /\ UNCHANGED exp
    /\ UNCHANGED varsOutros
    /\ UNCHANGED <<config, fato, w, chamadas, evidencias, laudo, resumo, metricas, retorno,
                   relogio, pastas>>

\* with open(pdf_path, "wb") as f_pdf: pisa.CreatePDF(html_completo, dest=f_pdf);
\* return md_path, html_path, pdf_path; exibir_painel_resultados(...); return metricas.
\* CreatePDF reports a rendering error in the status it returns (pisaStatus.err),
\* which the code drops; it can also raise.
exportar_pdf(r) ==
    /\ estado[r] = "Exporting"
    /\ exp[r].pc = "pdf"
    /\ LET c == Caminho(exp[r].pasta, exp[r].timestamp, "pdf")
       IN  \/ \* rendered; or pisaStatus.err set and ignored
              /\ \E completo \in BOOLEAN :
                    arquivos' = Gravar(c, Arquivo(r, html_completo(r), completo))
              /\ exp' = [exp EXCEPT ![r] = [@ EXCEPT !.pc = "fim"]]
              /\ Entrar(r, "Done")
              /\ retorno' = [retorno EXCEPT ![r] = metricas[r]]
              /\ UNCHANGED erro
           \/ /\ main_except(r, Excecao("open.pdf", 0))
              /\ UNCHANGED <<arquivos, exp, retorno>>
           \/ \* CreatePDF raises: the file was opened, its content is not complete
              /\ arquivos' = Gravar(c, Arquivo(r, html_completo(r), FALSE))
              /\ main_except(r, Excecao("pisa.CreatePDF", 0))
              /\ UNCHANGED <<exp, retorno>>
    /\ UNCHANGED varsOutros
    /\ UNCHANGED <<config, fato, w, chamadas, evidencias, laudo, resumo, metricas, relogio,
                   pastas>>

\* a second of wall-clock time passes
Tick ==
    /\ relogio < MaxRelogio
    /\ relogio' = relogio + 1
    /\ UNCHANGED varsOutros
    /\ UNCHANGED <<estado, hist, config, fato, w, chamadas, evidencias, laudo, resumo,
                   metricas, exp, retorno, erro, pastas, arquivos>>

(***************************************************************************)
(* Specifications.  Each one runs one part of the program; the variables   *)
(* of the other parts rest at their initial values.                        *)
(***************************************************************************)
RetryParado    == rw = FrameInicial(TentativasPadrao) /\ plano = 0
MetricasParado == texto = <<>> /\ metricas_out = <<>>
ScoreParado    == score_str = <<>> /\ classe = <<>>
NomeParado     == nome_dado = <<>> /\ nome_limpo = <<>> /\ nome_relimpo = <<>>
FontesParado   == fontes = <<>> /\ tabela = <<>> /\ prompt = <<>>

RunsIdle(cfg, fs) ==
    /\ estado = [r \in Runs |-> "Idle"]
    /\ hist = [r \in Runs |-> <<"Idle">>]
    /\ config = cfg
    /\ fato = fs
    /\ w = [r \in Runs |-> FrameInicial(TentativasPadrao)]
    /\ chamadas = [r \in Runs |-> [e \in EtapasDeRede |-> 0]]
    /\ evidencias = [r \in Runs |-> <<>>]
    /\ laudo = [r \in Runs |-> <<>>]
    /\ resumo = [r \in Runs |-> <<>>]
    /\ metricas = [r \in Runs |-> <<>>]
    /\ exp = [r \in Runs |-> ExpInicial]
    /\ retorno = [r \in Runs |-> <<>>]
    /\ erro = [r \in Runs |-> <<>>]
    /\ relogio = 0
    /\ pastas = {}
    /\ arquivos = <<>>

RunsParado == RunsIdle([r \in Runs |-> Config(TentativasPadrao)], [r \in Runs |-> FatoA])

\* ---- Spec: one investigation, from the prompt of main() to Done or Failed
Init ==
    /\ RetryParado /\ MetricasParado /\ ScoreParado /\ NomeParado /\ FontesParado
    /\ \E n \in 1..MaxConfigTentativas, f \in Fatos :
          RunsIdle([r \in Runs |-> IF r = "r1" THEN Config(n) ELSE Config(TentativasPadrao)],
                   [r \in Runs |-> IF r = "r1" THEN f ELSE FatoA])

Next ==
    \/ Tick
    \/ executar_investigacao("r1")
    \/ buscar_web("r1")
    \/ gerar_laudo_ia("r1")
    \/ gerar_resumo_executivo("r1")
    \/ exportar_makedirs("r1")
    \/ exportar_timestamp("r1")
    \/ exportar_md("r1")
    \/ exportar_html("r1")
    \/ exportar_pdf("r1")

Spec == Init /\ [][Next]_vars

\* ---- SpecConcorrente: two investigations, both at the start of stage 4, exporting
\*      in any interleaving
InitConcorrente ==
    /\ RetryParado /\ MetricasParado /\ ScoreParado /\ NomeParado /\ FontesParado
    /\ \E fs \in [Runs -> Fatos] :
          /\ fato = fs
          /\ config = [r \in Runs |-> Config(TentativasPadrao)]
          /\ estado = [r \in Runs |-> "Exporting"]
          /\ hist = [r \in Runs |->
                        <<"Idle", "Fetching", "Synthesizing", "Summarizing", "Exporting">>]
          /\ w = [r \in Runs |-> FrameInicial(TentativasPadrao)]
          /\ chamadas = [r \in Runs |-> [e \in EtapasDeRede |-> 1]]
          /\ evidencias = [r \in Runs |-> << <<FonteB, FonteA>> >>]
          /\ laudo = [r \in Runs |-> << Juntar(<<LinhaConspir, LinhaFinal>>) >>]
          /\ resumo = [r \in Runs |-> <<"resumoA">>]
          /\ metricas = [r \in Runs |-> <<>>]
          /\ exp = [r \in Runs |-> ExpInicial]
          /\ retorno = [r \in Runs |-> <<>>]
          /\ erro = [r \in Runs |-> <<>>]
          /\ relogio = 0
          /\ pastas = {}
          /\ arquivos = <<>>

NextConcorrente ==
    \/ Tick
    \/ \E r \in Runs : exportar_makedirs(r)
    \/ \E r \in Runs : exportar_timestamp(r)
    \/ \E r \in Runs : exportar_md(r)
    \/ \E r \in Runs : exportar_html(r)
    \/ \E r \in Runs : exportar_pdf(r)

SpecConcorrente == InitConcorrente /\ [][NextConcorrente]_vars

\* ---- SpecRetry: one call of a function decorated with com_retry(tentativas=n)
MaxTentativas == 5
MaxFalhas == 6

InitRetry ==
    /\ MetricasParado /\ ScoreParado /\ NomeParado /\ FontesParado /\ RunsParado
    /\ \E n \in 0..MaxTentativas : rw = FrameInicial(n)
    /\ plano \in 0..MaxFalhas

\* one pass of the loop body: the wrapped function fails on its first `plano` calls
RetryChamada ==
    /\ wrapper_no_laco(rw)
    /\ LET k == rw.chamadas + 1
       IN  rw' = IF k <= plano THEN wrapper_falha(rw, Excecao("func", k))
                 ELSE wrapper_sucesso(rw, "valor")
    /\ UNCHANGED <<plano, varsMetricas, varsScore, varsNome, varsFontes, varsRun>>

RetryFimDoLaco ==
    /\ rw.fim = "executando"
    /\ ~ wrapper_no_laco(rw)
    /\ rw' = wrapper_esgotado(rw)
    /\ UNCHANGED <<plano, varsMetricas, varsScore, varsNome, varsFontes, varsRun>>

NextRetry == RetryChamada \/ RetryFimDoLaco

SpecRetry == InitRetry /\ [][NextRetry]_vars

\* ---- SpecMetricas: extrair_metricas applied to a report text
InitMetricas ==
    /\ RetryParado /\ ScoreParado /\ NomeParado /\ FontesParado /\ RunsParado
    /\ texto \in Textos
    /\ metricas_out = <<>>

ExtrairMetricas ==
    /\ metricas_out = <<>>
    /\ metricas_out' = <<extrair_metricas(texto)>>
    /\ UNCHANGED <<texto, varsRetry, varsScore, varsNome, varsFontes, varsRun>>

NextMetricas == ExtrairMetricas

SpecMetricas == InitMetricas /\ [][NextMetricas]_vars

\* ---- SpecScore: classificar_score applied to a score string
InitScore ==
    /\ RetryParado /\ MetricasParado /\ NomeParado /\ FontesParado /\ RunsParado
    /\ score_str \in ScoreStrs
    /\ classe = <<>>

ClassificarScore ==
    /\ classe = <<>>
    /\ classe' = <<classificar_score(score_str)>>
    /\ UNCHANGED <<score_str, varsRetry, varsMetricas, varsNome, varsFontes, varsRun>>

NextScore == ClassificarScore

SpecScore == InitScore /\ [][NextScore]_vars

\* ---- SpecNome: sanitizar_nome applied to a claim text, then to its own result
InitNome ==
    /\ RetryParado /\ MetricasParado /\ ScoreParado /\ FontesParado /\ RunsParado
    /\ nome_dado \in Nomes
    /\ nome_limpo = <<>>
    /\ nome_relimpo = <<>>

SanitizarNome ==
    /\ nome_limpo = <<>>
    /\ nome_limpo' = <<sanitizar_nome(nome_dado)>>
    /\ UNCHANGED <<nome_dado, nome_relimpo, varsRetry, varsMetricas, varsScore, varsFontes, varsRun>>

SanitizarDeNovo ==
    /\ nome_limpo # <<>>
    /\ nome_relimpo = <<>>
    /\ nome_relimpo' = <<sanitizar_nome(nome_limpo[1])>>
    /\ UNCHANGED <<nome_dado, nome_limpo, varsRetry, varsMetricas, varsScore, varsFontes, varsRun>>

NextNome == SanitizarNome \/ SanitizarDeNovo

SpecNome == InitNome /\ [][NextNome]_vars

\* ---- SpecFontes: the two renderings of one evidence set, in either order
InitFontes ==
    /\ RetryParado /\ MetricasParado /\ ScoreParado /\ NomeParado /\ RunsParado
    /\ fontes \in ListasDeFontes
    /\ tabela = <<>>
    /\ prompt = <<>>

GerarTabela ==
    /\ tabela = <<>>
    /\ tabela' = <<gerar_tabela_fontes_html(fontes)>>
    /\ UNCHANGED <<fontes, prompt, varsRetry, varsMetricas, varsScore, varsNome, varsRun>>

FormatarPrompt ==
    /\ prompt = <<>>
    /\ prompt' = IF formatar_levanta(fontes)
                 THEN << [levantou |-> TRUE, linhas |-> <<>>] >>
                 ELSE << [levantou |-> FALSE,
                          linhas |-> formatar_evidencias_para_prompt(fontes)] >>
    /\ UNCHANGED <<fontes, tabela, varsRetry, varsMetricas, varsScore, varsNome, varsRun>>

NextFontes == GerarTabela \/ FormatarPrompt

SpecFontes == InitFontes /\ [][NextFontes]_vars

(***************************************************************************)
(* Claims.                                                                 *)
(***************************************************************************)
RetryTerminou == rw.fim # "executando"

\* the notices printed so far are those of the failed calls 1..n, in order
AvisosDe(f, n) ==
    /\ Len(f.avisos) = n
    /\ \A k \in 1..n : f.avisos[k] = [tentativa |-> k, e |-> Excecao("func", k)]

\* C1, as the specification states it: with tentativas = N >= 1, an operation that
\* fails exactly N times and then succeeds returns the success value, with exactly
\* N retry notices.
C1_Original ==
    (RetryTerminou /\ rw.tentativas >= 1 /\ plano = rw.tentativas)
        => (rw.fim = "retornou" /\ rw.valor = <<"valor">> /\ Len(rw.avisos) = rw.tentativas)

\* C1, amended: with tentativas = N >= 1, an operation that fails exactly k times,
\* k <= N - 1, and then succeeds returns the success value after k + 1 calls, with
\* exactly k retry notices and k sleeps; one that fails exactly N times has its N-th
\* failure raised to the caller after N - 1 notices, and is not called again.
C1_Retry ==
    (RetryTerminou /\ rw.tentativas >= 1)
        => /\ plano <= rw.tentativas - 1
              => /\ rw.fim = "retornou"
                 /\ rw.valor = <<"valor">>
                 /\ rw.chamadas = plano + 1
                 /\ AvisosDe(rw, plano)
                 /\ rw.esperas = plano
           /\ plano = rw.tentativas
              => /\ rw.fim = "levantou"
                 /\ rw.excecao = <<Excecao("func", rw.tentativas)>>
                 /\ rw.chamadas = rw.tentativas
                 /\ AvisosDe(rw, rw.tentativas - 1)

C1_Witness ==
    /\ rw.fim = "retornou"
    /\ rw.tentativas >= 3
    /\ plano = rw.tentativas - 1
    /\ Len(rw.avisos) = plano

\* C2: with tentativas >= 1, when every permitted call of the wrapped operation
\* fails, the wrapper calls it exactly tentativas times and then raises the failure
\* of the last call, unchanged; it returns no value, and the last failure is followed
\* by no notice and no sleep (tentativas - 1 of each in all).
C2_FalhaFinal ==
    rw.tentativas >= 1
        => /\ rw.chamadas <= rw.tentativas
           /\ rw.fim = "executando" => wrapper_no_laco(rw)
           /\ (RetryTerminou /\ plano >= rw.tentativas)
                 => /\ rw.fim = "levantou"
                    /\ rw.chamadas = rw.tentativas
                    /\ rw.excecao = <<Excecao("func", rw.tentativas)>>
                    /\ rw.valor = <<>>
                    /\ AvisosDe(rw, rw.tentativas - 1)
                    /\ rw.esperas = rw.tentativas - 1

C2_Witness ==
    /\ rw.fim = "levantou"
    /\ rw.tentativas = 3
    /\ plano > rw.tentativas
    /\ rw.chamadas = 3

\* C3: each of the three network calls of a run is attempted at most
\* config.max_tentativas_retry times, and exactly that many times when it keeps
\* failing until the run fails.
C3_Original ==
    /\ \A e \in EtapasDeRede : chamadas["r1"][e] <= config["r1"].max_tentativas_retry
    /\ estado["r1"] = "Failed"
          => LET etapa == hist["r1"][Len(hist["r1"]) - 1]
             IN  etapa \in EtapasDeRede
                    => chamadas["r1"][etapa] = config["r1"].max_tentativas_retry

Ordem == <<"Idle", "Fetching", "Synthesizing", "Summarizing", "Exporting", "Done">>

Prefixo(h, o) == Len(h) <= Len(o) /\ \A k \in 1..Len(h) : h[k] = o[k]

Ultimo(h) == h[Len(h)]

Antes(h) == SubSeq(h, 1, Len(h) - 1)

Passou(h, e) == \E k \in 1..Len(h) : h[k] = e

Extensoes == {"md", "html", "pdf"}

\* C4: the stages of a run occur only in the order Idle, Fetching, Synthesizing,
\* Summarizing, Exporting, Done (or break off into Failed); a stage is entered only
\* once the operation of the stage before it has returned its result, none is
\* skipped or entered twice, and on Done executar_investigacao returns the metrics
\* extracted from the report of that run.
C4_Ordem ==
    LET r == "r1"
        h == hist[r]
    IN  /\ estado[r] = Ultimo(h)
        /\ \/ Prefixo(h, Ordem)
           \/ Ultimo(h) = "Failed" /\ Prefixo(Antes(h), Antes(Ordem))
        /\ Passou(h, "Fetching") <=> (h # <<"Idle">>)
        /\ Passou(h, "Synthesizing") <=> (evidencias[r] # <<>>)
        /\ \A e \in EtapasDeRede : chamadas[r][e] > 0 => Passou(h, e)
        /\ Passou(h, "Summarizing") <=> (laudo[r] # <<>>)
        /\ Passou(h, "Exporting") <=> (resumo[r] # <<>>)
        /\ Passou(h, "Done") <=> (exp[r].pc = "fim")
        /\ Passou(h, "Done") <=> (retorno[r] # <<>>)
        /\ estado[r] = "Done"
              => /\ retorno[r] = <<extrair_metricas(laudo[r][1])>>
                 /\ erro[r] = <<>>
                 /\ \A e \in EtapasDeRede : chamadas[r][e] \in 1..TentativasPadrao

C4_Witness ==
    /\ estado["r1"] = "Done"
    /\ hist["r1"] = Ordem
    /\ retorno["r1"][1].score = <<"9", "5">>
    /\ chamadas["r1"]["Synthesizing"] = 2

FuncDaEtapa(e) ==
    CASE e = "Fetching" -> "buscar_web"
      [] e = "Synthesizing" -> "gerar_laudo_ia"
      [] e = "Summarizing" -> "gerar_resumo_executivo"

\* the calls that can raise inside the decorated function of a stage
FuncsDaEtapa(e) ==
    IF e = "Synthesizing" THEN {FuncDaEtapa(e), "formatar_evidencias_para_prompt"}
    ELSE {FuncDaEtapa(e)}

ArquivosDe(r) == {c \in DOMAIN arquivos : arquivos[c].autor = r}

\* C5: when the operation of a stage raises out of it, the run goes straight to
\* Failed and main() reports that very exception; the failed stage is not entered
\* again, no later stage is entered, the output of the failed stage and of the later
\* ones stays unset (no default takes its place), nothing is returned, and the run
\* takes no further step: it never reaches Done.
C5_Falha ==
    LET r == "r1"
        h == hist[r]
    IN  /\ (erro[r] # <<>>) <=> (estado[r] = "Failed")
        /\ Passou(h, "Failed") <=> (estado[r] = "Failed")
        /\ estado[r] = "Failed"
              => LET etapa == h[Len(h) - 1]
                     e     == erro[r][1]
                 IN  /\ Ultimo(h) = "Failed"
                     /\ Prefixo(Antes(h), Antes(Ordem))
                     /\ etapa # "Idle"
                     /\ retorno[r] = <<>>
                     /\ etapa \in EtapasDeRede
                           => /\ e.func \in FuncsDaEtapa(etapa)
                              /\ e.n = chamadas[r][etapa]
                              /\ w[r].fim = "levantou"
                              /\ w[r].excecao = <<e>>
                              /\ ArquivosDe(r) = {}
                              /\ metricas[r] = <<>>
                     /\ etapa = "Fetching"
                           => evidencias[r] = <<>> /\ laudo[r] = <<>> /\ resumo[r] = <<>>
                     /\ etapa = "Synthesizing" => laudo[r] = <<>> /\ resumo[r] = <<>>
                     /\ etapa = "Summarizing" => resumo[r] = <<>>
                     /\ etapa = "Exporting"
                           => /\ exp[r].pc # "fim"
                              /\ e.func \in
                                   CASE exp[r].pc = "makedirs" -> {"os.makedirs"}
                                     [] exp[r].pc = "md" -> {"open.md", "write.md"}
                                     [] exp[r].pc = "html" -> {"open.html", "write.html"}
                                     [] exp[r].pc = "pdf" -> {"open.pdf", "pisa.CreatePDF"}
                                     [] OTHER -> {}
                     /\ ~ ENABLED (\/ executar_investigacao(r) \/ buscar_web(r)
                                   \/ gerar_laudo_ia(r) \/ gerar_resumo_executivo(r)
                                   \/ exportar_makedirs(r) \/ exportar_timestamp(r)
                                   \/ exportar_md(r) \/ exportar_html(r) \/ exportar_pdf(r))

C5_Witness ==
    /\ estado["r1"] = "Failed"
    /\ hist["r1"] = <<"Idle", "Fetching", "Synthesizing", "Summarizing", "Failed">>
    /\ erro["r1"] = <<Excecao("gerar_resumo_executivo", 3)>>
    /\ laudo["r1"] # <<>>

\* C6: whenever a run ends in Done, its three artifacts exist under its case folder,
\* each complete and each produced from the report, summary, evidence and metrics of
\* that run.
C6_Original ==
    LET r == "r1"
    IN  estado[r] = "Done"
           => \A ext \in Extensoes :
                 LET c == Caminho(exp[r].pasta, exp[r].timestamp, ext)
                 IN  /\ c \in DOMAIN arquivos
                     /\ arquivos[c].completo
                     /\ arquivos[c].conteudo =
                           IF ext = "md" THEN md_completo(r) ELSE html_completo(r)

NaPasta(r) == exp[r].pc # "makedirs"

Escritas(r) ==
    CASE exp[r].pc \in {"makedirs", "timestamp", "md"} -> {}
      [] exp[r].pc = "html" -> {"md"}
      [] exp[r].pc = "pdf" -> {"md", "html"}
      [] exp[r].pc = "fim" -> {"md", "html", "pdf"}

TodosEm(t, a, b, c) == \A k \in a..b : t[k] \in c

\* LABEL:\s*(C+) matches at p, the group starting at q
OcorreRotulo(t, p, q, rotulo, c) ==
    /\ Em(t, p) = rotulo
    /\ Em(t, p + 1) = ":"
    /\ q \in (p + 2)..Len(t)
    /\ TodosEm(t, p + 2, q - 1, Espacos)
    /\ t[q] \in c

TemRotulo(t, p, rotulo, c) == \E q \in (p + 2)..Len(t) : OcorreRotulo(t, p, q, rotulo, c)

\* what re.search(...).group(1) is due to be, or N/A without a match
EsperadoRotulo(t, rotulo, c) ==
    IF \E p \in 1..Len(t) : TemRotulo(t, p, rotulo, c)
    THEN LET p == CHOOSE x \in 1..Len(t) :
                     TemRotulo(t, x, rotulo, c) /\ \A y \in 1..(x - 1) : ~ TemRotulo(t, y, rotulo, c)
             q == CHOOSE x \in (p + 2)..Len(t) : OcorreRotulo(t, p, x, rotulo, c)
             e == CHOOSE x \in q..Len(t) : TodosEm(t, q, x, c) /\ Em(t, x + 1) \notin c
         IN  SubSeq(t, q, e)
    ELSE NA

\* \d+(?:\.\d+)? spans a..b
DecimalEm(t, a, b) ==
    \E m \in a..b :
        /\ TodosEm(t, a, m, Digitos)
        /\ \/ m = b
           \/ m + 2 <= b /\ t[m + 1] = "." /\ TodosEm(t, m + 2, b, Digitos)

\* MÉDIA CONSPIR\s*\|\s*\*?\*?(\d+(?:\.\d+)?)/10 matches at p, the group spanning a..b
OcorreConspir(t, p, a, b) ==
    /\ Em(t, p) = "MÉDIA" /\ Em(t, p + 1) = " " /\ Em(t, p + 2) = "CONSPIR"
    /\ \E q1 \in (p + 3)..(a - 1) :
          /\ TodosEm(t, p + 3, q1 - 1, Espacos)
          /\ t[q1] = "|"
          /\ \E q2 \in (q1 + 1)..a :
                /\ TodosEm(t, q1 + 1, q2 - 1, Espacos)
                /\ a - q2 <= 2
                /\ TodosEm(t, q2, a - 1, {"*"})
    /\ DecimalEm(t, a, b)
    /\ Em(t, b + 1) = "/" /\ Em(t, b + 2) = "1" /\ Em(t, b + 3) = "0"

TemConspir(t, p) ==
    /\ Em(t, p) = "MÉDIA"
    /\ \E a \in (p + 4)..Len(t) : \E b \in a..Len(t) : OcorreConspir(t, p, a, b)

EsperadoConspir(t) ==
    IF \E p \in 1..Len(t) : TemConspir(t, p)
    THEN LET p == CHOOSE x \in 1..Len(t) :
                     TemConspir(t, x) /\ \A y \in 1..(x - 1) : ~ TemConspir(t, y)
             a == CHOOSE x \in (p + 4)..Len(t) : \E b \in x..Len(t) : OcorreConspir(t, p, x, b)
             b == CHOOSE x \in a..Len(t) : OcorreConspir(t, p, a, x)
         IN  SubSeq(t, a, b) \o <<"/", "1", "0">>
    ELSE NA

Campos == {"score", "confianca", "veredito", "conspir_media"}

\* C8: for any text, extrair_metricas returns a record of exactly the four fields
\* score, confianca, veredito and conspir_media; each field is the value its own
\* pattern captures at its leftmost match in the text, and N/A when its pattern
\* matches nowhere, whatever the other three patterns do.
C8_Total ==
    metricas_out # <<>>
        => LET m == metricas_out[1]
           IN  /\ DOMAIN m = Campos
               /\ m.score = EsperadoRotulo(texto, "SCORE_DESINFORMACAO", Digitos)
               /\ m.confianca = EsperadoRotulo(texto, "CONFIANCA_ANALISE", CharsPalavra)
               /\ m.veredito = EsperadoRotulo(texto, "VEREDITO_CODIGO", CharsPalavra)
               /\ m.conspir_media = EsperadoConspir(texto)

\* a text with the verdict and the composite sub-score but neither score nor
\* confidence
C8_Witness ==
    /\ metricas_out # <<>>
    /\ metricas_out[1].score = NA
    /\ metricas_out[1].confianca = NA
    /\ metricas_out[1].veredito = <<"FALSO">>
    /\ metricas_out[1].conspir_media = <<"7", ".", "5", "/", "1", "0">>

\* all four found
C8_WitnessTodos ==
    /\ metricas_out # <<>>
    /\ \A f \in Campos : metricas_out[1][f] # NA

ConfiancasValidas == {<<"ALTA">>, <<"MEDIA">>, <<"BAIXA">>}

VereditosValidos == {<<"VERDADEIRO">>, <<"FALSO">>, <<"PARCIAL">>, <<"CONTEXTO">>,
                     <<"INCONCLUSIVO">>, <<"DESATUALIZADO">>}

MaxScore == 100

SoDigitos(s) == s # <<>> /\ \A k \in 1..Len(s) : s[k] \in Digitos

SoPalavra(s) == s # <<>> /\ \A k \in 1..Len(s) : s[k] \in CharsPalavra

\* C9, as the specification states it: in every record extrair_metricas returns,
\* score is an integer in 0..100 or N/A, confianca is one of ALTA, MEDIA, BAIXA or
\* N/A, and veredito is one of the six verdict codes or N/A.
C9_Original ==
    metricas_out # <<>>
        => LET m == metricas_out[1]
           IN  /\ m.score = NA \/ (SoDigitos(m.score) /\ ValorDecimal(m.score) \in 0..MaxScore)
               /\ m.confianca \in ConfiancasValidas \cup {NA}
               /\ m.veredito \in VereditosValidos \cup {NA}

\* C9, amended: in every record extrair_metricas returns, score is N/A or a
\* non-empty string of decimal digits (of any magnitude, not held to 0..100), and
\* confianca and veredito are each N/A or a non-empty run of word characters (any
\* word, not held to the enumerations); a value lies in its range or enumeration
\* when the text after the label does.
C9_Formato ==
    metricas_out # <<>>
        => LET m == metricas_out[1]
           IN  /\ m.score = NA \/ SoDigitos(m.score)
               /\ m.confianca = NA \/ SoPalavra(m.confianca)
               /\ m.veredito = NA \/ SoPalavra(m.veredito)
               /\ texto = LinhaFinal
                     => /\ ValorDecimal(m.score) \in 0..MaxScore
                        /\ m.confianca \in ConfiancasValidas
                        /\ m.veredito \in VereditosValidos

\* a score above 100 and a confidence outside the enumeration
C9_Witness ==
    /\ metricas_out # <<>>
    /\ metricas_out[1].score = <<"2", "5", "0">>
    /\ metricas_out[1].confianca = <<"MÉDIA">>

(***************************************************************************)
(* classificar_score.                                                      *)
(***************************************************************************)
DigitoDe(n) ==
    CASE n = 0 -> "0" [] n = 1 -> "1" [] n = 2 -> "2" [] n = 3 -> "3" [] n = 4 -> "4"
      [] n = 5 -> "5" [] n = 6 -> "6" [] n = 7 -> "7" [] n = 8 -> "8" [] n = 9 -> "9"

\* str(n), n >= 0
RECURSIVE Str(_)
Str(n) == IF n < 10 THEN <<DigitoDe(n)>> ELSE Str(n \div 10) \o <<DigitoDe(n % 10)>>

\* the band of a label, 0 for INDETERMINADO
Banda(par) ==
    CASE par = <<"green", "ALTAMENTE CONFIÁVEL">> -> 1
      [] par = <<"yellow", "MAIORITARIAMENTE VERDADEIRO">> -> 2
      [] par = <<"orange3", "SUSPEITO / VERIFICAR">> -> 3
      [] par = <<"red", "PROVÁVEL DESINFORMAÇÃO">> -> 4
      [] par = <<"bold red", "DESINFORMAÇÃO CONFIRMADA">> -> 5
      [] par = <<"white", "INDETERMINADO">> -> 0

BandaDevida(n) ==
    IF n <= 20 THEN 1 ELSE IF n <= 40 THEN 2 ELSE IF n <= 60 THEN 3 ELSE IF n <= 80 THEN 4 ELSE 5

Tabela == {<<0, 1>>, <<20, 1>>, <<21, 2>>, <<40, 2>>, <<41, 3>>, <<60, 3>>, <<61, 4>>,
           <<80, 4>>, <<81, 5>>, <<100, 5>>}

\* a string int() cannot read: a character that is no digit, sign or blank, or no
\* digit at all
NaoNumerica(s) ==
    \/ \E k \in 1..Len(s) : s[k] \notin Digitos \cup Espacos \cup {"+", "-"}
    \/ \A k \in 1..Len(s) : s[k] \notin Digitos

\* C10: classificar_score always returns one of its six labels; the scores 0, 20,
\* 21, 40, 41, 60, 61, 80, 81, 100 fall in bands 1, 1, 2, 2, 3, 3, 4, 4, 5, 5; a
\* score of decimal digits falls in the band of its thresholds (<= 20, <= 40, <= 60,
\* <= 80, above), no lower score in 0..100 falls in a higher band, and a negative
\* score falls in band 1; and a string that is no number, N/A included, gets
\* INDETERMINADO.
C10_Bandas ==
    classe # <<>>
        => LET par == classe[1]
           IN  /\ Banda(par) \in 0..5
               /\ \A l \in Tabela : score_str = Str(l[1]) => Banda(par) = l[2]
               /\ SoDigitos(score_str)
                     => /\ Banda(par) = BandaDevida(ValorDecimal(score_str))
                        /\ \A n \in 0..MaxScore :
                              n <= ValorDecimal(score_str)
                                 => Banda(classificar_score(Str(n))) <= Banda(par)
               /\ (Len(score_str) >= 2 /\ score_str[1] = "-" /\ SoDigitos(Tail(score_str)))
                     => Banda(par) = 1
               /\ NaoNumerica(score_str) => par = <<"white", "INDETERMINADO">>
               /\ score_str = NA => par = <<"white", "INDETERMINADO">>

C10_Witness ==
    /\ classe = << <<"red", "PROVÁVEL DESINFORMAÇÃO">> >>
    /\ score_str = <<"8", "0">>

C10_WitnessNA ==
    /\ classe = << <<"white", "INDETERMINADO">> >>
    /\ score_str = NA

\* C11: folder-name sanitization is idempotent and bounded: sanitizing a sanitized name
\* gives the same name back, and no sanitized name is longer than LimiteNome characters
C11_Original ==
    /\ nome_limpo # <<>> => Len(nome_limpo[1]) <= LimiteNome
    /\ nome_relimpo # <<>> => nome_relimpo[1] = nome_limpo[1]

\* the lines of a prompt that open a block, in order
RECURSIVE Cabecalhos(_)
Cabecalhos(ls) ==
    IF ls = <<>> THEN <<>>
    ELSE IF ls[1].rotulo = "--- FONTE [i] ---"
         THEN <<ls[1].n>> \o Cabecalhos(Tail(ls))
         ELSE Cabecalhos(Tail(ls))

\* the line with the given label that follows the k-th line of a prompt
CampoDoBloco(ls, k, rotulo) ==
    LET js == {j \in k..Len(ls) : ls[j].rotulo = rotulo}
    IN  ls[CHOOSE j \in js : \A j2 \in js : j <= j2].valor

\* C12: for an evidence set of n >= 1 items the table of sources has exactly n rows in
\* the input order, the i-th row carrying the citation index i and the url and title of
\* the i-th item ("N/D" for a field the item lacks); the numbered list of the prompt
\* has n blocks, headed 1..n in order, the i-th with the url and title of the i-th item
C12_Indices ==
    LET n == Len(fontes)
    IN  n >= 1 =>
          /\ tabela # <<>> =>
                /\ tabela[1].tag = "table"
                /\ Len(tabela[1].tr) = n
                /\ \A i \in 1..n :
                      /\ tabela[1].tr[i].indice = i
                      /\ tabela[1].tr[i].url = Get(fontes[i].url)
                      /\ tabela[1].tr[i].href = Get(fontes[i].url)
                      /\ tabela[1].tr[i].titulo = Get(fontes[i].title)
          /\ (prompt # <<>> /\ ~ prompt[1].levantou) =>
                LET ls == prompt[1].linhas
                    cs == {k \in 1..Len(ls) : ls[k].rotulo = "--- FONTE [i] ---"}
                IN  /\ Cabecalhos(ls) = [i \in 1..n |-> i]
                    /\ \A k \in cs :
                          /\ CampoDoBloco(ls, k, "URL") = Get(fontes[ls[k].n].url)
                          /\ CampoDoBloco(ls, k, "Título") = Get(fontes[ls[k].n].title)
          /\ (tabela # <<>> /\ prompt # <<>> /\ ~ prompt[1].levantou) =>
                Cabecalhos(prompt[1].linhas) = [i \in 1..n |-> tabela[1].tr[i].indice]

C12_Witness ==
    /\ Len(fontes) = MaxFontes
    /\ fontes[1] = FonteB /\ fontes[2] = FonteSemTitulo /\ fontes[MaxFontes] = FonteA
    /\ tabela # <<>> /\ prompt # <<>>
    /\ ~ prompt[1].levantou
    /\ tabela[1].tr[2].indice = 2 /\ tabela[1].tr[2].url = "u3" /\ tabela[1].tr[2].titulo = ND

ChamadasDeRede == {FuncDaEtapa(e) : e \in EtapasDeRede}

SemResultados(r) == evidencias[r] = << <<>> >>

\* C13: a fetch that returns zero results is not a failure. The run goes on to
\* Synthesizing; assembling the prompt gives the "none found" line and the table of
\* sources the "none found" paragraph, neither raises; if the run then fails, what
\* main() reports is the exception of a collaborator (generation, summary, file system
\* or PDF renderer), raised after the usual attempts; and on Done the three files of
\* the run are in its case folder, the HTML and PDF ones with that paragraph.
C13_Vazio ==
    LET r == "r1"
        h == hist[r]
    IN  SemResultados(r) =>
          /\ Passou(h, "Synthesizing")
          /\ chamadas[r]["Fetching"] \in 1..TentativasPadrao
          /\ ~ formatar_levanta(evidencias[r][1])
          /\ formatar_evidencias_para_prompt(evidencias[r][1])
                = << [rotulo |-> "Nenhuma evidência encontrada.", n |-> 0, valor |-> ""] >>
          /\ estado[r] = "Failed" =>
                /\ h[Len(h) - 1] # "Fetching"
                /\ erro[r][1].func \in
                      (ChamadasDeRede \ {"buscar_web"}) \cup
                      {"os.makedirs", "open.md", "write.md", "open.html", "write.html",
                       "open.pdf", "pisa.CreatePDF"}
                /\ erro[r][1].func \in ChamadasDeRede => erro[r][1].n = TentativasPadrao
          /\ \A c \in ArquivosDe(r) :
                c.ext \in {"html", "pdf"} =>
                   /\ arquivos[c].conteudo.tabela_fontes.tag = "p"
                   /\ arquivos[c].conteudo.tabela_fontes.tr = <<>>
          /\ estado[r] = "Done" =>
                /\ ArquivosDe(r) =
                      {[pasta |-> sanitizar_nome(fato[r]), base |-> exp[r].timestamp, ext |-> x] :
                          x \in Extensoes}
                /\ retorno[r] # <<>>

C13_Witness ==
    /\ SemResultados("r1")
    /\ estado["r1"] = "Done"
    /\ Cardinality(ArquivosDe("r1")) = Cardinality(Extensoes)
    /\ \A c \in ArquivosDe("r1") : arquivos[c].completo
    /\ \A e \in EtapasDeRede : chamadas["r1"][e] = 1

\* C14: only failed network calls are retried. Every notice the wrapper printed is for
\* a failed network call, and a run that failed on anything else (assembling the
\* prompt, a file operation of the export) made one attempt of it, with no notice and
\* no wait before main() reported it.
C14_Original ==
    LET r == "r1"
        h == hist[r]
    IN  /\ \A k \in 1..Len(w[r].avisos) : w[r].avisos[k].e.func \in ChamadasDeRede
        /\ (estado[r] = "Failed" /\ erro[r][1].func \notin ChamadasDeRede) =>
              /\ erro[r][1].n <= 1
              /\ w[r].avisos = <<>>
              /\ w[r].esperas = 0
              /\ h[Len(h) - 1] \in EtapasDeRede => chamadas[r][h[Len(h) - 1]] = 1

\* C17: the case folder of a run is a proper sub-folder of the reports directory: the
\* folder name computed from the claim, which main() passes on only when it is not
\* empty after trimming, is not empty, and no file is written at the reports root.
C17_Original ==
    LET r == "r1"
    IN  /\ fato[r] # <<>> /\ Strip(fato[r]) = fato[r]
        /\ NaPasta(r) => exp[r].pasta # <<>>
        /\ \A c \in DOMAIN arquivos : c.pasta # <<>>

\* the label at p, with emphasis characters allowed between it and the colon and
\* between the colon and the value, which starts at q
OcorreRotuloComEnfase(t, p, q, rotulo, c) ==
    /\ Em(t, p) = rotulo
    /\ \E i \in (p + 1)..(q - 1) :
          /\ TodosEm(t, p + 1, i - 1, {"*"})
          /\ t[i] = ":"
          /\ TodosEm(t, i + 1, q - 1, Espacos \cup {"*"})
    /\ t[q] \in c

TemRotuloComEnfase(t, rotulo, c) ==
    \E p \in 1..Len(t) : \E q \in (p + 2)..Len(t) : OcorreRotuloComEnfase(t, p, q, rotulo, c)

\* C15: emphasis characters around a label do not stop the extraction: a report in
\* which SCORE_DESINFORMACAO, CONFIANCA_ANALISE or VEREDITO_CODIGO is followed by its
\* colon and value, with emphasis before the label, between label and colon or between
\* colon and value, gives that field a value, not N/A; "**SCORE_DESINFORMACAO:** 95"
\* gives the score 95.
C15_Original ==
    metricas_out # <<>> =>
       LET m == metricas_out[1]
       IN  /\ TemRotuloComEnfase(texto, "SCORE_DESINFORMACAO", Digitos) => m.score # NA
           /\ TemRotuloComEnfase(texto, "CONFIANCA_ANALISE", CharsPalavra) => m.confianca # NA
           /\ TemRotuloComEnfase(texto, "VEREDITO_CODIGO", CharsPalavra) => m.veredito # NA
           /\ texto = LinhaScoreEnfase => m.score = <<"9", "5">>

\* a line of the text holds MÉDIA and, after it, a decimal followed by /10
TemLinhaMedia(t) ==
    \E p \in 1..Len(t) : \E b \in (p + 1)..Len(t) :
        /\ t[p] = "MÉDIA"
        /\ t[b] \in Digitos
        /\ Em(t, b + 1) = "/" /\ Em(t, b + 2) = "1" /\ Em(t, b + 3) = "0"
        /\ \A k \in p..b : t[k] # "\n"

\* C16: a report with a line that holds MÉDIA and <decimal>/10 has conspir_media set to
\* that <decimal>/10, and conspir_media is N/A only when there is no such line; the row
\* "| **MÉDIA CONSPIR** | **7.5/10** | |" of the report template gives 7.5/10.
C16_Original ==
    metricas_out # <<>> =>
       LET m == metricas_out[1]
       IN  /\ TemLinhaMedia(texto) => m.conspir_media # NA
           /\ texto = LinhaConspirModelo => m.conspir_media = <<"7", ".", "5", "/", "1", "0">>

====
